---- MODULE Spec2Model ----
(***************************************************************************)
(* A model of the goap crate: typed world states (src/src/state.rs),       *)
(* actions (src/src/actions.rs), goals (src/src/goals.rs) and the A*       *)
(* planner (src/src/planner.rs).                                           *)
(*                                                                         *)
(* A StateVar is a record [t, v]: t is the variant, v the payload as an    *)
(* integer (Bool: 0/1, I64 and F64: the stored i64, Enum: an index that    *)
(* stands for the string).  A WorldState is a function from the names it   *)
(* holds to StateVars.  f64 costs and scores are modelled as a binary      *)
(* floating-point format with MantBits significant bits and               *)
(* round-to-nearest-even, so that an addition rounds exactly where the     *)
(* real format does, only at a smaller magnitude.                          *)
(***************************************************************************)
EXTENDS Integers, Sequences, FiniteSets, TLC

\* ------------------------------------------------------------------ bounds
\* Longest action list handed to plan().
MaxActions == 2
\* Largest magnitude of a numeric state variable followed by the search.
ValCap == 6
\* Significant bits of the modelled floating-point format (f64 has 53).
MantBits == 3

\* Width of the two's-complement integers that stand for i64 (which has 64):
\* wide enough for every value and difference the searches meet.
I64Bits == 10

RECURSIVE Pow2(_)
Pow2(n) == IF n = 0 THEN 1 ELSE 2 * Pow2(n - 1)

\* ------------------------------------------------------------------ i64
i64_MIN == 0 - Pow2(I64Bits - 1)
i64_MAX == Pow2(I64Bits - 1) - 1

\* The i64 that holds the low bits of n: what an operation that overflows
\* leaves when overflow checks are off.
wrapping(n) == ((n - i64_MIN) % Pow2(I64Bits)) + i64_MIN

\* a - b on two i64 values, as a build without overflow checks computes it.
wrapping_sub(a, b) == wrapping(a - b)

\* Whether a - b overflows: a build with overflow checks panics there.
sub_overflows(a, b) == a - b < i64_MIN \/ a - b > i64_MAX

\* ------------------------------------------------------------------ u64
\* u64 has the width of i64 and no sign.
u64_MAX == Pow2(I64Bits) - 1

\* a + b on two u64 values, as a build without overflow checks computes it.
wrapping_add(a, b) == (a + b) % Pow2(I64Bits)

\* Whether a + b overflows: a build with overflow checks panics there.
add_overflows(a, b) == a + b > u64_MAX

\* ------------------------------------------------------------------ StateVar
Bool(b) == [t |-> "Bool", v |-> b]
I64(n) == [t |-> "I64", v |-> n]
F64(n) == [t |-> "F64", v |-> n]
Enum(s) == [t |-> "Enum", v |-> s]

\* The failure of a distance between two different variants: Planner::heuristic
\* receives it as an Err (map_err on the result of distance), and state.rs
\* raises it as a panic (see CallDistance).
InvalidVarType == [ok |-> FALSE, d |-> 0]

\* i64::unsigned_abs: the magnitude as a u64, which holds that of i64::MIN too.
unsigned_abs(n) == IF n < 0 THEN -n ELSE n

\* StateVar::distance, the subtraction as a build without overflow checks
\* computes it (see CallDistance for a build with them).
distance(self, other) ==
    CASE self.t = "Bool" /\ other.t = "Bool" ->
            [ok |-> TRUE, d |-> IF self.v = other.v THEN 0 ELSE 1]
      [] self.t = "I64" /\ other.t = "I64" ->
            [ok |-> TRUE, d |-> unsigned_abs(wrapping_sub(self.v, other.v))]
      [] self.t = "F64" /\ other.t = "F64" ->
            [ok |-> TRUE, d |-> unsigned_abs(wrapping_sub(self.v, other.v))]
      [] self.t = "Enum" /\ other.t = "Enum" ->
            [ok |-> TRUE, d |-> IF self.v = other.v THEN 0 ELSE 1]
      [] OTHER -> InvalidVarType

\* ------------------------------------------------------------------ from_f64, as_f64
\* An f64 handed to from_f64 or returned by as_f64 is held here as a whole
\* number of ten-thousandths, one decimal place more than the encoding
\* keeps: Grain of them make a thousandth. Products and quotients of these
\* values are taken exactly; the cast to i64 keeps the width of i64.
Grain == 10

\* f64::round on n / Grain: the nearest whole number, halves away from zero.
round(n) ==
    IF n >= 0 THEN (2 * n + Grain) \div (2 * Grain)
    ELSE 0 - ((2 * (0 - n) + Grain) \div (2 * Grain))

\* `as i64` on a whole f64: the value, or the end of i64 nearest to it.
as_i64(n) == IF n > i64_MAX THEN i64_MAX ELSE IF n < i64_MIN THEN i64_MIN ELSE n

\* StateVar::from_f64: (value * 1000.0).round() as i64, value in
\* ten-thousandths, so that value * 1000.0 is value / Grain.
from_f64(value) == F64(as_i64(round(value)))

None == [some |-> FALSE, f |-> 0]
Some(f) == [some |-> TRUE, f |-> f]

\* StateVar::as_f64: *value as f64 / 1000.0, in ten-thousandths.
as_f64(self) == IF self.t = "F64" THEN Some(self.v * Grain) ELSE None

\* ------------------------------------------------------------------ StateOperation
Set(value) == [op |-> "Set", val |-> value, amount |-> 0]
Add(n) == [op |-> "Add", val |-> I64(0), amount |-> n]
Subtract(n) == [op |-> "Subtract", val |-> I64(0), amount |-> n]

\* ------------------------------------------------------------------ WorldState
\* WorldState::new: no variables.
EmptyState == [key \in {} |-> I64(0)]

\* HashMap::insert on the vars of a state.
insert(vars, key, value) ==
    [k \in DOMAIN vars \cup {key} |-> IF k = key THEN value ELSE vars[k]]

\* satisfies comparing numbers for equality instead of against a threshold.
satisfies_exact(self, conditions) ==
    \A key \in DOMAIN conditions :
        /\ key \in DOMAIN self
        /\ self[key].t = conditions[key].t
        /\ self[key].v = conditions[key].v

\* satisfies passing over the conditions it cannot compare.
satisfies_comparable(self, conditions) ==
    \A key \in DOMAIN conditions :
        key \in DOMAIN self /\ self[key].t = conditions[key].t =>
            IF self[key].t \in {"I64", "F64"}
            THEN ~(self[key].v < conditions[key].v)
            ELSE self[key].v = conditions[key].v

satisfies(self, conditions) ==
    \A key \in DOMAIN conditions :
        /\ key \in DOMAIN self
        /\ LET cur == self[key]
               req == conditions[key]
           IN  CASE cur.t = "Bool" /\ req.t = "Bool" -> ~(cur.v # req.v)
                 [] cur.t = "I64" /\ req.t = "I64" -> ~(cur.v < req.v)
                 [] cur.t = "F64" /\ req.t = "F64" -> ~(cur.v < req.v)
                 [] cur.t = "Enum" /\ req.t = "Enum" -> ~(cur.v # req.v)
                 [] OTHER -> FALSE

\* apply starting an absent variable at 0 for Add and Subtract.
apply_one_creating(vars, key, operation) ==
    CASE operation.op = "Set" -> insert(vars, key, operation.val)
      [] operation.op = "Add" ->
            IF key \notin DOMAIN vars THEN insert(vars, key, I64(operation.amount))
            ELSE IF vars[key].t \in {"I64", "F64"}
            THEN insert(vars, key, [vars[key] EXCEPT !.v = @ + operation.amount])
            ELSE vars
      [] operation.op = "Subtract" ->
            IF key \notin DOMAIN vars THEN insert(vars, key, I64(0 - operation.amount))
            ELSE IF vars[key].t \in {"I64", "F64"}
            THEN insert(vars, key, [vars[key] EXCEPT !.v = @ - operation.amount])
            ELSE vars

\* apply letting Set replace a value of the same variant only.
apply_one_same_variant(vars, key, operation) ==
    CASE operation.op = "Set" ->
            IF key \in DOMAIN vars /\ vars[key].t # operation.val.t THEN vars
            ELSE insert(vars, key, operation.val)
      [] operation.op = "Add" ->
            IF key \in DOMAIN vars /\ vars[key].t \in {"I64", "F64"}
            THEN insert(vars, key, [vars[key] EXCEPT !.v = @ + operation.amount])
            ELSE vars
      [] operation.op = "Subtract" ->
            IF key \in DOMAIN vars /\ vars[key].t \in {"I64", "F64"}
            THEN insert(vars, key, [vars[key] EXCEPT !.v = @ - operation.amount])
            ELSE vars

\* One iteration of the loop of WorldState::apply.
apply_one(vars, key, operation) ==
    CASE operation.op = "Set" -> insert(vars, key, operation.val)
      [] operation.op = "Add" ->
            IF key \in DOMAIN vars /\ vars[key].t = "I64"
            THEN insert(vars, key, I64(vars[key].v + operation.amount))
            ELSE IF key \in DOMAIN vars /\ vars[key].t = "F64"
            THEN insert(vars, key, F64(vars[key].v + operation.amount))
            ELSE vars
      [] operation.op = "Subtract" ->
            IF key \in DOMAIN vars /\ vars[key].t = "I64"
            THEN insert(vars, key, I64(vars[key].v - operation.amount))
            ELSE IF key \in DOMAIN vars /\ vars[key].t = "F64"
            THEN insert(vars, key, F64(vars[key].v - operation.amount))
            ELSE vars

\* WorldState::apply: the entries of changes, one after the other.
RECURSIVE apply_rest(_, _, _)
apply_rest(vars, changes, todo) ==
    IF todo = {} THEN vars
    ELSE LET key == CHOOSE k \in todo : TRUE
         IN  apply_rest(apply_one(vars, key, changes[key]), changes, todo \ {key})

apply(self, changes) == apply_rest(self, changes, DOMAIN changes)

\* WorldState::apply when the map of changes yields its entries in this order.
RECURSIVE apply_in_order(_, _, _, _)
apply_in_order(vars, changes, order, i) ==
    IF i > Len(order) THEN vars
    ELSE apply_in_order(apply_one(vars, order[i], changes[order[i]]),
                        changes, order, i + 1)

\* merge keeping the value of a variable the state already holds.
RECURSIVE merge_rest_keeping(_, _, _)
merge_rest_keeping(vars, other, todo) ==
    IF todo = {} THEN vars
    ELSE LET key == CHOOSE k \in todo : TRUE
         IN  merge_rest_keeping(IF key \in DOMAIN vars THEN vars
                                ELSE insert(vars, key, other[key]),
                                other, todo \ {key})

\* WorldState::merge: the entries of other, one after the other.
RECURSIVE merge_rest(_, _, _)
merge_rest(vars, other, todo) ==
    IF todo = {} THEN vars
    ELSE LET key == CHOOSE k \in todo : TRUE
         IN  merge_rest(insert(vars, key, other[key]), other, todo \ {key})

merge(self, other) == merge_rest(self, other, DOMAIN other)

\* The names of the variables of a hashed state, and String's order on them.
HashKeys == {"a", "k", "x"}
str_lt(a, b) ==
    LET rank == [key \in HashKeys |-> IF key = "a" THEN 1 ELSE IF key = "k" THEN 2 ELSE 3]
    IN  rank[a] < rank[b]

\* keys.sort() in the Hash of WorldState.
RECURSIVE sorted_insert(_, _)
sorted_insert(keys, key) ==
    IF keys = <<>> THEN <<key>>
    ELSE IF str_lt(key, keys[1]) THEN <<key>> \o keys
    ELSE <<keys[1]>> \o sorted_insert(Tail(keys), key)

RECURSIVE sort(_)
sort(keys) == IF keys = <<>> THEN <<>> ELSE sorted_insert(sort(Tail(keys)), keys[1])

\* A WorldState as a HashMap in memory: vars, and iter, the order in which
\* the map yields its keys. set() in turn for each of the pairs.
RECURSIVE set_all(_, _, _)
set_all(vars, pairs, i) ==
    IF i > Len(pairs) THEN vars
    ELSE set_all(insert(vars, pairs[i].key, pairs[i].value), pairs, i + 1)

\* Hash for WorldState feeding the hasher in the order the map iterates.
hash_in_iteration_order(self) ==
    [i \in 1..Len(self.iter) |-> <<self.iter[i], self.vars[self.iter[i]]>>]

\* Hash for WorldState: what it feeds the hasher, each key and its value
\* in the order of the sorted keys.
hash(self) ==
    LET keys == sort(self.iter)
    IN  [i \in 1..Len(keys) |-> <<keys[i], self.vars[keys[i]]>>]

\* PartialEq of HashMap (derived for WorldState): as many entries, and each
\* entry of the one is an entry of the other.
eq(self, other) ==
    /\ Len(self.iter) = Len(other.iter)
    /\ \A i \in DOMAIN self.iter :
            /\ self.iter[i] \in DOMAIN other.vars
            /\ other.vars[self.iter[i]] = self.vars[self.iter[i]]

\* HashMap::insert with a WorldState as the key: the entry whose key has
\* the same hash and is equal gets the value, or a new entry is made.
RECURSIVE map_insert_from(_, _, _, _)
map_insert_from(entries, key, value, i) ==
    IF i > Len(entries) THEN Append(entries, [key |-> key, value |-> value])
    ELSE IF hash(entries[i].key) = hash(key) /\ eq(entries[i].key, key)
    THEN [entries EXCEPT ![i].value = value]
    ELSE map_insert_from(entries, key, value, i + 1)

map_insert(entries, key, value) == map_insert_from(entries, key, value, 1)

\* ------------------------------------------------------------------ Action, Goal
Action(name, cost, preconditions, effects) ==
    [name |-> name, cost |-> cost, preconditions |-> preconditions, effects |-> effects]

can_execute(action, state) == satisfies(state, action.preconditions)

apply_effect(action, state) == apply(state, action.effects)

Goal(name, desired_state) == [name |-> name, desired_state |-> desired_state]

\* is_satisfied asking for the desired state itself.
is_satisfied_exactly(goal, state) == state = goal.desired_state

\* is_satisfied taking the desired state for a description of the whole state.
is_satisfied_covering(goal, state) ==
    satisfies(state, goal.desired_state) /\ DOMAIN state \subseteq DOMAIN goal.desired_state

is_satisfied(goal, state) == satisfies(state, goal.desired_state)

\* ------------------------------------------------------------------ f64
\* Significant bits of the format, and largest magnitude followed, when the
\* inputs are those of the gold scenario: its amounts (30, 80, 100) and its
\* scores are all exact in f64, and so they are with these bits.
ScenarioMantBits == 8
ScenarioValCap == 200

VARIABLE
    scale           \* the scale of the inputs: "unit", or "gold" in the scenario

OnGold == scale = "gold"

\* The significant bits of the format, at the scale of the inputs.
Precision == IF OnGold THEN ScenarioMantBits ELSE MantBits

\* The spacing of the representable values around n >= 0.
RECURSIVE Ulp(_)
Ulp(n) == IF n < Pow2(Precision) THEN 1 ELSE 2 * Ulp(n \div 2)

\* n >= 0 rounded to the nearest representable value, ties to the even mantissa.
RoundF64(n) ==
    LET u == Ulp(n)
        q == n \div u
        r == n % u
    IN  IF 2 * r < u THEN q * u
        ELSE IF 2 * r > u THEN (q + 1) * u
        ELSE IF q % 2 = 0 THEN q * u ELSE (q + 1) * u

\* f64::INFINITY, kept apart from the finite values, which are >= 0.
INFINITY == 0 - 1

\* a + b on two f64 values.
f64_add(a, b) ==
    IF a = INFINITY \/ b = INFINITY THEN INFINITY ELSE RoundF64(a + b)

\* a < b on two f64 values.
f64_lt(a, b) == a # INFINITY /\ (b = INFINITY \/ a < b)

\* ------------------------------------------------------------------ open set
\* The Ord of NodeWrapper comparing the f-scores as they are: a max-heap
\* of the open set then pops the greatest f-score.
node_le_unreversed(a, b) == ~f64_lt(b.f_score, a.f_score)

\* NodeWrapper: a <= b under its Ord, which compares the f-scores reversed.
node_le(a, b) == ~f64_lt(a.f_score, b.f_score)

\* BinaryHeap::sift_up on positions counted from 0.
RECURSIVE sift_up(_, _, _, _)
sift_up(data, start, pos, elem) ==
    IF pos > start /\ ~node_le(elem, data[((pos - 1) \div 2) + 1])
    THEN sift_up([data EXCEPT ![pos + 1] = data[((pos - 1) \div 2) + 1]],
                 start, (pos - 1) \div 2, elem)
    ELSE [data EXCEPT ![pos + 1] = elem]

\* BinaryHeap::push.
heap_push(data, item) == sift_up(Append(data, item), 0, Len(data), item)

\* BinaryHeap::sift_down_to_bottom: the hole goes down along the greater
\* children to a leaf, then the element sifts up from there.
RECURSIVE sift_down_to_bottom(_, _, _, _)
sift_down_to_bottom(data, start, pos, elem) ==
    LET end == Len(data)
        child == 2 * pos + 1
    IN  IF end >= 2 /\ child <= end - 2
        THEN LET c == IF node_le(data[child + 1], data[child + 2])
                      THEN child + 1 ELSE child
             IN  sift_down_to_bottom([data EXCEPT ![pos + 1] = data[c + 1]],
                                     start, c, elem)
        ELSE IF child = end - 1
        THEN sift_up([data EXCEPT ![pos + 1] = data[child + 1]], start, child, elem)
        ELSE sift_up(data, start, pos, elem)

\* BinaryHeap::pop leaving the greatest item in the heap.
heap_pop_keeping(data) == [item |-> data[1], data |-> data]

\* BinaryHeap::pop on a non-empty heap: the item and the heap left.
heap_pop(data) ==
    LET last == data[Len(data)]
        rest == SubSeq(data, 1, Len(data) - 1)
    IN  IF rest = <<>>
        THEN [item |-> last, data |-> rest]
        ELSE [item |-> rest[1],
              data |-> sift_down_to_bottom([rest EXCEPT ![1] = last], 0, 0, last)]

\* ------------------------------------------------------------------ Planner
\* The score of an unrecorded node taken to be 0.
g_score_or_zero(gs, node) == IF node \in DOMAIN gs THEN gs[node] ELSE 0

\* *g_score.get(&node).unwrap_or(&f64::INFINITY)
g_score_or_inf(gs, node) == IF node \in DOMAIN gs THEN gs[node] ELSE INFINITY

\* heuristic counting a variant mismatch as a distance of 1.
RECURSIVE heuristic_from_lenient(_, _, _, _, _)
heuristic_from_lenient(current, goal, order, i, total_distance) ==
    IF i > Len(order)
    THEN [err |-> "", h |-> total_distance, overflow |-> FALSE]
    ELSE LET key == order[i]
         IN  IF key \in DOMAIN current /\ distance(current[key], goal[key]).ok
             THEN heuristic_from_lenient(current, goal, order, i + 1,
                      total_distance + distance(current[key], goal[key]).d)
             ELSE heuristic_from_lenient(current, goal, order, i + 1,
                                         total_distance + 1)

\* heuristic failing on a variable the state does not hold as well.
RECURSIVE heuristic_from_requiring(_, _, _, _, _)
heuristic_from_requiring(current, goal, order, i, total_distance) ==
    IF i > Len(order)
    THEN [err |-> "", h |-> RoundF64(total_distance),
          overflow |-> FALSE]
    ELSE LET key == order[i]
         IN  IF key \in DOMAIN current /\ distance(current[key], goal[key]).ok
             THEN heuristic_from_requiring(current, goal, order, i + 1,
                      total_distance + distance(current[key], goal[key]).d)
             ELSE [err |-> key, h |-> 0, overflow |-> FALSE]

\* Planner::heuristic. order is the order in which the map goal.vars
\* yields its entries; the result is the f64 distance, or the key of the
\* first entry whose variant differs from the state's. total_distance is a
\* u64: the result is the one of a build without overflow checks, and
\* overflow tells whether a subtraction of distance or an addition to
\* total_distance has overflowed before the function returned, where a build
\* with overflow checks panics (see CallHeuristic; the searches stay within
\* values whose distances and sums do not overflow).
RECURSIVE heuristic_from(_, _, _, _, _)
heuristic_from(current, goal, order, i, total_distance) ==
    IF i > Len(order)
    THEN [err |-> "", h |-> RoundF64(total_distance), overflow |-> FALSE]
    ELSE LET key == order[i]
         IN  IF key \in DOMAIN current
             THEN LET dist == distance(current[key], goal[key])
                  IN  IF ~dist.ok
                      THEN [err |-> key, h |-> 0, overflow |-> FALSE]
                      ELSE LET rest == heuristic_from(current, goal, order, i + 1,
                                           wrapping_add(total_distance, dist.d))
                           IN  [rest EXCEPT !.overflow =
                                   \/ rest.overflow
                                   \/ add_overflows(total_distance, dist.d)
                                   \/ /\ current[key].t \in {"I64", "F64"}
                                      /\ sub_overflows(current[key].v, goal[key].v)]
             ELSE LET rest == heuristic_from(current, goal, order, i + 1,
                                  wrapping_add(total_distance, 1))
                  IN  [rest EXCEPT !.overflow =
                          rest.overflow \/ add_overflows(total_distance, 1)]

heuristic(current, goal, order) == heuristic_from(current, goal, order, 1, 0)

\* get_valid_transitions applying each action's effects to the state itself
\* instead of a clone, so that the next action meets the changed state.
RECURSIVE get_valid_transitions_from_in_place(_, _, _)
get_valid_transitions_from_in_place(state, acts, i) ==
    IF i > Len(acts) THEN <<>>
    ELSE IF can_execute(acts[i], state)
    THEN <<[next_state |-> apply_effect(acts[i], state),
            cost |-> acts[i].cost,
            action |-> acts[i]]>>
         \o get_valid_transitions_from_in_place(apply_effect(acts[i], state), acts, i + 1)
    ELSE get_valid_transitions_from_in_place(state, acts, i + 1)

\* get_valid_transitions taking every action, executable in the state or not.
RECURSIVE get_valid_transitions_from_unchecked(_, _, _)
get_valid_transitions_from_unchecked(state, acts, i) ==
    IF i > Len(acts) THEN <<>>
    ELSE <<[next_state |-> apply_effect(acts[i], state),
            cost |-> acts[i].cost,
            action |-> acts[i]]>>
         \o get_valid_transitions_from_unchecked(state, acts, i + 1)

\* Planner::get_valid_transitions.
RECURSIVE get_valid_transitions_from(_, _, _)
get_valid_transitions_from(state, acts, i) ==
    IF i > Len(acts) THEN <<>>
    ELSE IF can_execute(acts[i], state)
    THEN <<[next_state |-> apply_effect(acts[i], state),
            cost |-> acts[i].cost,
            action |-> acts[i]]>>
         \o get_valid_transitions_from(state, acts, i + 1)
    ELSE get_valid_transitions_from(state, acts, i + 1)

get_valid_transitions(state, acts) == get_valid_transitions_from(state, acts, 1)

\* reconstruct_path without the final reverse.
RECURSIVE reconstruct_from_unreversed(_, _, _, _, _)
reconstruct_from_unreversed(cf, at, current_state, acts, total_cost) ==
    IF current_state \in DOMAIN cf
    THEN reconstruct_from_unreversed(cf, at, cf[current_state],
                                     acts \o <<at[current_state]>>,
                                     f64_add(total_cost, at[current_state].cost))
    ELSE [actions |-> acts, cost |-> total_cost]

\* reconstruct_path keeping the cost of the action met last instead of the sum.
RECURSIVE reconstruct_from_overwriting(_, _, _, _, _)
reconstruct_from_overwriting(cf, at, current_state, acts, total_cost) ==
    IF current_state \in DOMAIN cf
    THEN reconstruct_from_overwriting(cf, at, cf[current_state],
                                      <<at[current_state]>> \o acts,
                                      at[current_state].cost)
    ELSE [actions |-> acts, cost |-> total_cost]

\* Planner::reconstruct_path.
RECURSIVE reconstruct_from(_, _, _, _, _)
reconstruct_from(cf, at, current_state, acts, total_cost) ==
    IF current_state \in DOMAIN cf
    THEN IF current_state \in DOMAIN at
         THEN reconstruct_from(cf, at, cf[current_state],
                               <<at[current_state]>> \o acts,
                               f64_add(total_cost, at[current_state].cost))
         ELSE reconstruct_from(cf, at, cf[current_state], acts, total_cost)
    ELSE [actions |-> acts, cost |-> total_cost]

reconstruct_path(cf, at, current) == reconstruct_from(cf, at, current, <<>>, 0)

\* ------------------------------------------------------------------ inputs
\* The set of the elements of a sequence.
Range(seq) == { seq[i] : i \in DOMAIN seq }

Vars == {"x", "k"}

\* The actions the lists handed to plan() are drawn from.
ActionPool ==
    { Action("step", 0, EmptyState, "x" :> Add(1)),
      Action("jump", 1, EmptyState, "x" :> Set(I64(3))),
      Action("inc1", 1, EmptyState, "x" :> Add(1)),
      Action("heavy", 8, "x" :> I64(2), "k" :> Set(Bool(1))),
      Action("dec", 2, "x" :> I64(1), ("x" :> Subtract(1)) @@ ("k" :> Set(Bool(0)))),
      Action("to_text", 1, EmptyState, "x" :> Set(Enum(1))),
      Action("set_k", 0, EmptyState, "k" :> Set(Bool(1))),
      Action("use_k", 0, "k" :> Bool(1), "x" :> Add(2)),
      Action("if_text", 1, "x" :> Enum(1), "k" :> Set(Bool(1))) }

\* The action lists: up to MaxActions different actions of the pool, in any order.
ActionLists ==
    UNION { { s \in [1..n -> ActionPool] : \A i, j \in 1..n : i # j => s[i] # s[j] }
            : n \in 0..MaxActions }

InitialStates ==
    { EmptyState,
      "x" :> I64(0),
      ("x" :> I64(0)) @@ ("k" :> Bool(0)),
      ("x" :> I64(1)) @@ ("k" :> Bool(1)),
      "x" :> I64(2),
      "x" :> Enum(1) }

Goals ==
    { Goal("nothing", EmptyState),
      Goal("x2", "x" :> I64(2)),
      Goal("x3", "x" :> I64(3)),
      Goal("k", "k" :> Bool(1)),
      Goal("x2k", ("x" :> I64(2)) @@ ("k" :> Bool(1))),
      Goal("text", "x" :> Enum(1)),
      Goal("texts", ("x" :> Enum(1)) @@ ("k" :> Enum(1))) }

\* The orders in which a map with the keys S can yield its entries.
IterationOrders(S) ==
    { s \in [1..Cardinality(S) -> S] : \A i, j \in DOMAIN s : i # j => s[i] # s[j] }

\* ------------------------------------------------------------------ plan()
VARIABLES
    initial_state,  \* argument of plan()
    goal,           \* argument of plan()
    actions,        \* argument of plan()
    goal_order,     \* the order in which goal.desired_state.vars iterates
    open_set,       \* the BinaryHeap's vector of NodeWrappers
    came_from,      \* HashMap<State, State>
    g_score,        \* HashMap<State, f64>
    action_taken,   \* HashMap<State, Action>
    current,        \* the node popped last
    pc,             \* "start", "loop", "done", or "cutoff" beyond ValCap
    result,         \* what plan() returned, once pc = "done"
    call,           \* 1 in the first call of plan(), 2 in a repeated one
    first,          \* what the first call returned, in a repeated one
    fn,             \* a direct call of a function of state.rs: its arguments
    ret,            \* and what it returned
    parked          \* the locals of a second plan() call in progress, while
                    \* the variables above hold those of the call that runs

vars == <<initial_state, goal, actions, goal_order, open_set, came_from, g_score,
          action_taken, current, pc, result, call, first, fn, ret, scale, parked>>

inputs == <<initial_state, goal, actions, scale>>

\* What the actions of one plan() call leave alone.
outside == <<call, first, fn, ret, parked>>

NoMap == [key \in {} |-> 0]

NoCall == [name |-> "none"]
NotParked == [pc |-> "none"]
NoReturn == [via |-> "none", value |-> FALSE]

NoResult == [kind |-> "none", actions |-> <<>>, cost |-> 0, key |-> ""]
Ok(plan) == [kind |-> "Ok", actions |-> plan.actions, cost |-> plan.cost, key |-> ""]
NoPlanFound == [kind |-> "NoPlanFound", actions |-> <<>>, cost |-> 0, key |-> ""]
IncompatibleStateTypes(key) ==
    [kind |-> "IncompatibleStateTypes", actions |-> <<>>, cost |-> 0, key |-> key]

Init ==
    /\ initial_state \in InitialStates
    /\ goal \in Goals
    /\ actions \in ActionLists
    /\ scale = "unit"
    /\ goal_order \in IterationOrders(DOMAIN goal.desired_state)
    /\ open_set = <<>>
    /\ came_from = NoMap
    /\ g_score = NoMap
    /\ action_taken = NoMap
    /\ current = initial_state
    /\ pc = "start"
    /\ result = NoResult
    /\ call = 1
    /\ first = NoResult
    /\ parked = NotParked
    /\ fn = NoCall
    /\ ret = NoReturn

\* plan() beginning without the score of the initial state.
Begin_without_score ==
    /\ pc = "start"
    /\ g_score' = g_score
    /\ LET initial_h == heuristic(initial_state, goal.desired_state, goal_order)
       IN  IF initial_h.err # ""
           THEN /\ pc' = "done"
                /\ result' = IncompatibleStateTypes(initial_h.err)
                /\ open_set' = open_set
           ELSE /\ pc' = "loop"
                /\ result' = result
                /\ open_set' = heap_push(open_set,
                                   [node |-> initial_state, f_score |-> initial_h.h])
    /\ UNCHANGED <<inputs, goal_order, came_from, action_taken, current, outside>>

\* planner.rs lines 84-95: the maps, the score of the initial state, the first push.
Begin ==
    /\ pc = "start"
    /\ g_score' = insert(g_score, initial_state, 0)
    /\ LET initial_h == heuristic(initial_state, goal.desired_state, goal_order)
       IN  IF initial_h.err # ""
           THEN /\ pc' = "done"
                /\ result' = IncompatibleStateTypes(initial_h.err)
                /\ open_set' = open_set
           ELSE /\ pc' = "loop"
                /\ result' = result
                /\ open_set' = heap_push(open_set,
                                   [node |-> initial_state, f_score |-> initial_h.h])
    /\ UNCHANGED <<inputs, goal_order, came_from, action_taken, current, outside>>

\* The for loop skipping a transition whose heuristic fails.
RECURSIVE expand_skipping_errors(_, _, _, _, _, _, _)
expand_skipping_errors(cur, current_g, transitions, i, gl, order, acc) ==
    IF i > Len(transitions) THEN acc
    ELSE LET next_state == transitions[i].next_state
             tentative_g == f64_add(current_g, transitions[i].cost)
             next_h == heuristic(next_state, gl.desired_state, order)
         IN  IF next_h.err = ""
                /\ f64_lt(tentative_g, g_score_or_inf(acc.g_score, next_state))
             THEN expand_skipping_errors(cur, current_g, transitions, i + 1, gl, order,
                    [err |-> "",
                     came_from |-> insert(acc.came_from, next_state, cur),
                     action_taken |-> insert(acc.action_taken, next_state,
                                             transitions[i].action),
                     g_score |-> insert(acc.g_score, next_state, tentative_g),
                     open_set |-> heap_push(acc.open_set,
                                     [node |-> next_state,
                                      f_score |-> f64_add(tentative_g, next_h.h)])])
             ELSE expand_skipping_errors(cur, current_g, transitions, i + 1, gl,
                                         order, acc)

\* The for loop scoring a successor with the cost of the step alone.
RECURSIVE expand_from_zero(_, _, _, _, _, _, _)
expand_from_zero(cur, current_g, transitions, i, gl, order, acc) ==
    IF i > Len(transitions) THEN acc
    ELSE LET next_state == transitions[i].next_state
             tentative_g == transitions[i].cost
             next_h == heuristic(next_state, gl.desired_state, order)
         IN  IF next_h.err # "" THEN [acc EXCEPT !.err = next_h.err]
             ELSE IF f64_lt(tentative_g, g_score_or_inf(acc.g_score, next_state))
             THEN expand_from_zero(cur, current_g, transitions, i + 1, gl, order,
                    [err |-> "",
                     came_from |-> insert(acc.came_from, next_state, cur),
                     action_taken |-> insert(acc.action_taken, next_state,
                                             transitions[i].action),
                     g_score |-> insert(acc.g_score, next_state, tentative_g),
                     open_set |-> heap_push(acc.open_set,
                                     [node |-> next_state,
                                      f_score |-> f64_add(tentative_g, next_h.h)])])
             ELSE expand_from_zero(cur, current_g, transitions, i + 1, gl, order, acc)

\* The for loop writing the entries on a tentative cost that is not larger
\* than the recorded one: an equal cost replaces them too.
RECURSIVE expand_non_strict(_, _, _, _, _, _, _)
expand_non_strict(cur, current_g, transitions, i, gl, order, acc) ==
    IF i > Len(transitions) THEN acc
    ELSE LET next_state == transitions[i].next_state
             tentative_g == f64_add(current_g, transitions[i].cost)
             next_h == heuristic(next_state, gl.desired_state, order)
         IN  IF next_h.err # "" THEN [acc EXCEPT !.err = next_h.err]
             ELSE IF ~f64_lt(g_score_or_inf(acc.g_score, next_state), tentative_g)
             THEN expand_non_strict(cur, current_g, transitions, i + 1, gl, order,
                    [err |-> "",
                     came_from |-> insert(acc.came_from, next_state, cur),
                     action_taken |-> insert(acc.action_taken, next_state,
                                             transitions[i].action),
                     g_score |-> insert(acc.g_score, next_state, tentative_g),
                     open_set |-> heap_push(acc.open_set,
                                     [node |-> next_state,
                                      f_score |-> f64_add(tentative_g, next_h.h)])])
             ELSE expand_non_strict(cur, current_g, transitions, i + 1, gl, order, acc)

\* The for loop of plan() over the transitions of the popped node, from the
\* i-th on. acc holds the maps and the open set; acc.err is the key of a
\* failed heuristic, after which the loop is left.
RECURSIVE expand(_, _, _, _, _, _, _)
expand(cur, current_g, transitions, i, gl, order, acc) ==
    IF i > Len(transitions) THEN acc
    ELSE LET next_state == transitions[i].next_state
             tentative_g == f64_add(current_g, transitions[i].cost)
             next_h == heuristic(next_state, gl.desired_state, order)
         IN  IF next_h.err # "" THEN [acc EXCEPT !.err = next_h.err]
             ELSE IF f64_lt(tentative_g, g_score_or_inf(acc.g_score, next_state))
             THEN expand(cur, current_g, transitions, i + 1, gl, order,
                    [err |-> "",
                     came_from |-> insert(acc.came_from, next_state, cur),
                     action_taken |-> insert(acc.action_taken, next_state,
                                             transitions[i].action),
                     g_score |-> insert(acc.g_score, next_state, tentative_g),
                     open_set |-> heap_push(acc.open_set,
                                     [node |-> next_state,
                                      f_score |-> f64_add(tentative_g, next_h.h)])])
             ELSE expand(cur, current_g, transitions, i + 1, gl, order, acc)

\* Whether every numeric variable of the state lies within the model's range.
InRange(state) ==
    \A key \in DOMAIN state :
        state[key].t \in {"I64", "F64"} =>
            unsigned_abs(state[key].v) <= (IF OnGold THEN ScenarioValCap ELSE ValCap)

\* planner.rs line 128: the open set is empty.
Exhausted ==
    /\ pc = "loop"
    /\ open_set = <<>>
    /\ pc' = "done"
    /\ result' = NoPlanFound
    /\ UNCHANGED <<inputs, goal_order, open_set, came_from, g_score, action_taken,
                   current, outside>>

\* planner.rs lines 97-105: the popped node satisfies the goal.
PopGoal ==
    /\ pc = "loop"
    /\ open_set # <<>>
    /\ LET popped == heap_pop(open_set)
       IN  /\ is_satisfied(goal, popped.item.node)
           /\ current' = popped.item.node
           /\ open_set' = popped.data
           /\ result' = Ok(reconstruct_path(came_from, action_taken, popped.item.node))
    /\ pc' = "done"
    /\ UNCHANGED <<inputs, goal_order, came_from, g_score, action_taken, outside>>

\* planner.rs lines 97-125: the popped node does not satisfy the goal and is expanded.
PopExpand ==
    /\ pc = "loop"
    /\ open_set # <<>>
    /\ LET popped == heap_pop(open_set)
           node == popped.item.node
           transitions == get_valid_transitions(node, actions)
           after == expand(node, g_score_or_inf(g_score, node), transitions, 1,
                           goal, goal_order,
                           [err |-> "", came_from |-> came_from,
                            action_taken |-> action_taken, g_score |-> g_score,
                            open_set |-> popped.data])
       IN  /\ ~is_satisfied(goal, node)
           /\ \A i \in DOMAIN transitions : InRange(transitions[i].next_state)
           /\ current' = node
           /\ came_from' = after.came_from
           /\ action_taken' = after.action_taken
           /\ g_score' = after.g_score
           /\ open_set' = after.open_set
           /\ IF after.err # ""
              THEN pc' = "done" /\ result' = IncompatibleStateTypes(after.err)
              ELSE pc' = "loop" /\ result' = result
    /\ UNCHANGED <<inputs, goal_order, outside>>

\* The search leaves the range of values the model follows: it goes on in
\* the program, and the model stops following it.
OutOfRange ==
    /\ pc = "loop"
    /\ open_set # <<>>
    /\ LET popped == heap_pop(open_set)
           transitions == get_valid_transitions(popped.item.node, actions)
       IN  /\ ~is_satisfied(goal, popped.item.node)
           /\ \E i \in DOMAIN transitions : ~InRange(transitions[i].next_state)
           /\ current' = popped.item.node
    /\ pc' = "cutoff"
    /\ UNCHANGED <<inputs, goal_order, open_set, came_from, g_score, action_taken,
                   result, outside>>

Next == Begin \/ Exhausted \/ PopGoal \/ PopExpand \/ OutOfRange

Spec == Init /\ [][Next]_vars

\* ------------------------------------------------------------------ plan() twice
\* A second call of plan() with the same initial state, goal and action
\* list. Its maps and open set are new; the map of the goal it is handed may
\* be another map with the same entries, which iterates in an order of its own.
CallAgain ==
    /\ pc = "done"
    /\ call = 1
    /\ call' = 2
    /\ first' = result
    /\ goal_order' \in IterationOrders(DOMAIN goal.desired_state)
    /\ open_set' = <<>>
    /\ came_from' = NoMap
    /\ g_score' = NoMap
    /\ action_taken' = NoMap
    /\ current' = initial_state
    /\ pc' = "start"
    /\ result' = NoResult
    /\ UNCHANGED <<inputs, fn, ret, parked>>

NextTwice == Begin \/ Exhausted \/ PopGoal \/ PopExpand \/ OutOfRange \/ CallAgain

SpecTwice == Init /\ [][NextTwice]_vars

\* ------------------------------------------------------------------ the gold scenario
small_job == Action("small_job", 1, EmptyState, "gold" :> Add(30))
big_job == Action("big_job", 3, EmptyState, "gold" :> Add(80))

\* The inputs of test_planner_numeric_accumulation and inputs around them:
\* other amounts of gold to start from, other amounts to reach, and the
\* lists made of the two jobs.
ScenarioInitialStates == { "gold" :> I64(n) : n \in {0, 10, 20, 50} }
ScenarioGoals == { Goal("get_rich", "gold" :> I64(n)) : n \in {60, 100, 190} }
ScenarioActionLists ==
    { <<>>, <<small_job>>, <<big_job>>, <<small_job, big_job>>, <<big_job, small_job>> }

InitScenario ==
    /\ initial_state \in ScenarioInitialStates
    /\ goal \in ScenarioGoals
    /\ actions \in ScenarioActionLists
    /\ scale = "gold"
    /\ goal_order = <<"gold">>
    /\ open_set = <<>>
    /\ came_from = NoMap
    /\ g_score = NoMap
    /\ action_taken = NoMap
    /\ current = initial_state
    /\ pc = "start"
    /\ result = NoResult
    /\ call = 1
    /\ first = NoResult
    /\ parked = NotParked
    /\ fn = NoCall
    /\ ret = NoReturn

SpecScenario == InitScenario /\ [][Next]_vars

\* ------------------------------------------------------------------ direct calls
\* Largest magnitude of a number handed to a function called directly.
MaxNum == 1

\* The values a variable can hold in a direct call.
StateVars ==
    {Bool(0), Bool(1), Enum(1), Enum(2)}
        \cup { I64(n) : n \in -MaxNum..MaxNum } \cup { F64(n) : n \in -MaxNum..MaxNum }

\* States over x and k: x absent or of any value, k absent or a Bool.
CallStates ==
    {EmptyState} \cup { "x" :> a : a \in StateVars }
        \cup { "k" :> b : b \in {Bool(0), Bool(1)} }
        \cup { ("x" :> a) @@ ("k" :> b) : a \in StateVars, b \in {Bool(0), Bool(1)} }

\* The planner at rest while functions are called directly.
PlannerIdle ==
    /\ initial_state = EmptyState
    /\ goal = Goal("nothing", EmptyState)
    /\ actions = <<>>
    /\ scale = "unit"
    /\ goal_order = <<>>
    /\ open_set = <<>>
    /\ came_from = NoMap
    /\ g_score = NoMap
    /\ action_taken = NoMap
    /\ current = EmptyState
    /\ pc = "idle"
    /\ result = NoResult
    /\ call = 1
    /\ first = NoResult
    /\ parked = NotParked

planner == <<initial_state, goal, actions, goal_order, open_set, came_from, g_score,
             action_taken, current, pc, result, call, first, scale, parked>>

InitSatisfies ==
    /\ PlannerIdle
    /\ fn \in { [name |-> "satisfies", self |-> s, conditions |-> c] :
                    s \in CallStates, c \in CallStates }
    /\ ret = NoReturn

\* state.satisfies(conditions)
CallSatisfies ==
    /\ fn.name = "satisfies"
    /\ ret = NoReturn
    /\ ret' = [via |-> "satisfies", value |-> satisfies(fn.self, fn.conditions)]
    /\ UNCHANGED <<planner, fn>>

\* action.can_execute(state) of an action with these preconditions
CallCanExecute ==
    /\ fn.name = "satisfies"
    /\ ret = NoReturn
    /\ ret' = [via |-> "can_execute",
               value |-> can_execute(Action("a", 1, fn.conditions, EmptyState), fn.self)]
    /\ UNCHANGED <<planner, fn>>

\* goal.is_satisfied(state) of a goal with this desired state
CallIsSatisfied ==
    /\ fn.name = "satisfies"
    /\ ret = NoReturn
    /\ ret' = [via |-> "is_satisfied",
               value |-> is_satisfied(Goal("g", fn.conditions), fn.self)]
    /\ UNCHANGED <<planner, fn>>

NextSatisfies == CallSatisfies \/ CallCanExecute \/ CallIsSatisfied

SpecSatisfies == InitSatisfies /\ [][NextSatisfies]_vars

\* ------------------------------------------------------------------ direct calls, state.rs
\* The operations of an effect map in a direct call.
CallOperations ==
    { Set(v) : v \in {Bool(1), I64(MaxNum), F64(0), Enum(2)} }
        \cup { Add(n) : n \in -MaxNum..MaxNum }
        \cup { Subtract(n) : n \in -MaxNum..MaxNum }

\* The effect maps over x and k.
CallChanges == UNION { [S -> CallOperations] : S \in SUBSET Vars }

\* The values handed to distance: those of StateVars and the ends of i64.
DistanceVars ==
    StateVars \cup { I64(n) : n \in {i64_MIN, i64_MAX} }
              \cup { F64(n) : n \in {i64_MIN, i64_MAX} }

\* state.apply(changes), with every order in which changes can iterate.
ApplyCalls ==
    UNION { { [name |-> "apply", self |-> s, changes |-> c, order |-> o] :
                s \in CallStates, o \in IterationOrders(DOMAIN c) } : c \in CallChanges }

\* action.apply_effect(state), the action with or without a precondition.
ApplyEffectCalls ==
    { [name |-> "apply_effect", self |-> s, action |-> Action("a", 1, p, c)] :
          s \in CallStates, p \in {EmptyState, "x" :> I64(1)}, c \in CallChanges }

\* a.distance(b)
DistanceCalls ==
    { [name |-> "distance", self |-> a, other |-> b] :
          a \in DistanceVars, b \in DistanceVars }

\* state.merge(other)
MergeCalls ==
    { [name |-> "merge", self |-> s, other |-> o] : s \in CallStates, o \in CallStates }

\* Whether two states agree on these variables: each holds those the other holds,
\* with the same value.
AgreeOn(keys, a, b) ==
    \A key \in keys :
        /\ key \in DOMAIN a <=> key \in DOMAIN b
        /\ key \in DOMAIN a => a[key] = b[key]

\* goal.is_satisfied on two states that agree on the variables the goal mentions.
IsSatisfiedCalls ==
    UNION { { [name |-> "is_satisfied", goal |-> Goal("g", c), self |-> s, other |-> o] :
                o \in { t \in CallStates : AgreeOn(DOMAIN c, s, t) } } :
            c \in CallStates, s \in CallStates }

\* The values handed to heuristic: of three variants, and the ends of i64.
HeuristicVars ==
    {Bool(0), Bool(1), Enum(1)} \cup { I64(n) : n \in {i64_MIN, -1, 0, 1, i64_MAX} }

\* States over x and k, each absent or of any of these values.
HeuristicStates ==
    {EmptyState} \cup { "x" :> a : a \in HeuristicVars }
        \cup { "k" :> b : b \in HeuristicVars }
        \cup { ("x" :> a) @@ ("k" :> b) : a \in HeuristicVars, b \in HeuristicVars }

\* planner.heuristic(current, goal), with every order in which goal can iterate.
HeuristicCalls ==
    UNION { { [name |-> "heuristic", current |-> s, goal |-> g, order |-> o] :
                s \in HeuristicStates, o \in IterationOrders(DOMAIN g) } :
            g \in HeuristicStates }

\* Largest magnitude, in ten-thousandths, of the small values handed to from_f64.
MaxSmall == 40

\* How far around the ends of i64, in ten-thousandths, the values handed to
\* from_f64 go.
Margin == 25

\* StateVar::from_f64(value): small values, values whose thousandths are
\* around the ends of i64, and values far beyond them.
FromF64Calls ==
    { [name |-> "from_f64", value |-> n] : n \in
        (0 - MaxSmall)..MaxSmall
        \cup { i64_MAX * Grain + d : d \in (0 - Margin)..Margin }
        \cup { i64_MIN * Grain + d : d \in (0 - Margin)..Margin }
        \cup { i64_MAX * Grain * 4, i64_MIN * Grain * 4 } }

\* The same name-to-value pairs set in two orders, a and b, into two states,
\* whose maps iterate in the orders c and d.
SetCall(values, a, b, c, d) ==
    [name |-> "set",
     first |-> [i \in DOMAIN a |-> [key |-> a[i], value |-> values[a[i]]]],
     second |-> [i \in DOMAIN b |-> [key |-> b[i], value |-> values[b[i]]]],
     iter_first |-> c, iter_second |-> d]

\* A program that either plans or calls the functions of state.rs directly.
InitCalls ==
    \/ Init
    \/ /\ PlannerIdle
       /\ ret = NoReturn
       /\ \/ fn \in ApplyCalls
          \/ fn \in ApplyEffectCalls
          \/ fn \in DistanceCalls
          \/ fn \in MergeCalls
          \/ fn \in IsSatisfiedCalls
          \/ fn \in HeuristicCalls
          \/ fn \in FromF64Calls
          \/ \E S \in SUBSET HashKeys : \E values \in [S -> {Bool(1), I64(MaxNum)}] :
                \E a \in IterationOrders(S), b \in IterationOrders(S),
                   c \in IterationOrders(S), d \in IterationOrders(S) :
                    fn = SetCall(values, a, b, c, d)

\* state.apply(changes), the map of changes iterating in fn.order
CallApply ==
    /\ fn.name = "apply"
    /\ ret.via = "none"
    /\ ret' = [via |-> "apply",
               value |-> apply_in_order(fn.self, fn.changes, fn.order, 1)]
    /\ UNCHANGED <<planner, fn>>

\* action.apply_effect(state): the state it returns, and the state it was
\* given (borrowed, and cloned before the effects are applied) after the call
CallApplyEffect ==
    /\ fn.name = "apply_effect"
    /\ ret.via = "none"
    /\ ret' = [via |-> "apply_effect",
               value |-> apply_effect(fn.action, fn.self),
               self |-> fn.self]
    /\ UNCHANGED <<planner, fn>>

\* StateVar::distance as state.rs has it, in a build with overflow checks
\* or without: a u64, or a panic where the variants differ (line 96) or
\* the checked subtraction overflows.
distance_call(overflow_checks, self, other) ==
    LET dist == distance(self, other)
    IN  IF ~dist.ok THEN [outcome |-> "panic", d |-> 0]
        ELSE IF overflow_checks /\ self.t \in {"I64", "F64"}
                /\ sub_overflows(self.v, other.v)
        THEN [outcome |-> "panic", d |-> 0]
        ELSE [outcome |-> "Ok", d |-> dist.d]

\* a.distance(b), and b.distance(a) in the same build
CallDistance ==
    /\ fn.name = "distance"
    /\ ret.via = "none"
    /\ \E overflow_checks \in BOOLEAN :
          ret' = [via |-> "distance",
                  there |-> distance_call(overflow_checks, fn.self, fn.other),
                  back |-> distance_call(overflow_checks, fn.other, fn.self)]
    /\ UNCHANGED <<planner, fn>>

\* state.merge(other): the state after the call, and other (borrowed) after it
CallMerge ==
    /\ fn.name = "merge"
    /\ ret.via = "none"
    /\ ret' = [via |-> "merge", value |-> merge(fn.self, fn.other), other |-> fn.other]
    /\ UNCHANGED <<planner, fn>>

\* goal.is_satisfied(state) and goal.is_satisfied(other)
CallIsSatisfiedBoth ==
    /\ fn.name = "is_satisfied"
    /\ ret.via = "none"
    /\ ret' = [via |-> "is_satisfied",
               value |-> is_satisfied(fn.goal, fn.self),
               other |-> is_satisfied(fn.goal, fn.other)]
    /\ UNCHANGED <<planner, fn>>

\* Two states built by set() in two orders: whether they are equal, what
\* each feeds the hasher, and a gScore map after an insert with each as the key
CallSet ==
    /\ fn.name = "set"
    /\ ret.via = "none"
    /\ LET a == [vars |-> set_all(EmptyState, fn.first, 1), iter |-> fn.iter_first]
           b == [vars |-> set_all(EmptyState, fn.second, 1), iter |-> fn.iter_second]
       IN  ret' = [via |-> "set",
                   eq |-> eq(a, b),
                   hash_first |-> hash(a),
                   hash_second |-> hash(b),
                   g_score |-> map_insert(map_insert(<<>>, a, 1), b, 2)]
    /\ UNCHANGED <<planner, fn>>

\* Planner::heuristic in a build with overflow checks or without: the f64,
\* the error naming the key, or a panic where a checked subtraction or
\* addition overflows.
heuristic_call(overflow_checks, state, desired, order) ==
    LET estimate == heuristic(state, desired, order)
    IN  IF overflow_checks /\ estimate.overflow
        THEN [outcome |-> "panic", key |-> "", h |-> 0]
        ELSE IF estimate.err # ""
        THEN [outcome |-> "Err", key |-> estimate.err, h |-> 0]
        ELSE [outcome |-> "Ok", key |-> "", h |-> estimate.h]

\* planner.heuristic(current, goal), and whether a goal with goal as its
\* desired state is satisfied by current
CallHeuristic ==
    /\ fn.name = "heuristic"
    /\ ret.via = "none"
    /\ \E overflow_checks \in BOOLEAN :
          ret' = [via |-> "heuristic",
                  value |-> heuristic_call(overflow_checks, fn.current, fn.goal,
                                           fn.order),
                  is_satisfied |-> is_satisfied(Goal("g", fn.goal), fn.current)]
    /\ UNCHANGED <<planner, fn>>

\* StateVar::from_f64(value), as_f64 on what it returns, and as_f64 on a
\* value of another variant
CallFromF64 ==
    /\ fn.name = "from_f64"
    /\ ret.via = "none"
    /\ ret' = [via |-> "from_f64",
               value |-> from_f64(fn.value),
               back |-> as_f64(from_f64(fn.value)),
               other |-> as_f64(Bool(1))]
    /\ UNCHANGED <<planner, fn>>

NextCalls ==
    \/ Begin \/ Exhausted \/ PopGoal \/ PopExpand \/ OutOfRange
    \/ CallApply \/ CallApplyEffect \/ CallDistance \/ CallMerge \/ CallIsSatisfiedBoth
    \/ CallSet \/ CallHeuristic \/ CallFromF64

SpecCalls == InitCalls /\ [][NextCalls]_vars

\* ------------------------------------------------------------------ reference notions
\* Executing a plan step by step from a state: whether every action was
\* applicable when its turn came, and the state reached.
RECURSIVE Execute(_, _, _)
Execute(state, plan, i) ==
    IF i > Len(plan) THEN [valid |-> TRUE, state |-> state]
    ELSE IF can_execute(plan[i], state)
    THEN Execute(apply_effect(plan[i], state), plan, i + 1)
    ELSE [valid |-> FALSE, state |-> state]

\* The costs of a plan added up as f64 values from the first action to the last.
RECURSIVE SumInOrder(_, _, _)
SumInOrder(plan, i, total) ==
    IF i > Len(plan) THEN total
    ELSE SumInOrder(plan, i + 1, f64_add(total, plan[i].cost))

\* The costs of a plan added up as f64 values from the last action to the first.
RECURSIVE SumFromLast(_, _, _)
SumFromLast(plan, i, total) ==
    IF i < 1 THEN total
    ELSE SumFromLast(plan, i - 1, f64_add(total, plan[i].cost))

\* The exact sum of the costs of a plan.
RECURSIVE ExactSum(_, _)
ExactSum(plan, i) == IF i > Len(plan) THEN 0 ELSE plan[i].cost + ExactSum(plan, i + 1)

\* The goal-mentioned variables a state holds under another variant than
\* the goal requires.
Mismatched(state, desired) ==
    { key \in DOMAIN desired : key \in DOMAIN state /\ state[key].t # desired[key].t }

\* The states one applicable action of the list away from a state.
Successors(state) ==
    { apply_effect(a, state) : a \in { b \in Range(actions) : can_execute(b, state) } }

\* The states reachable from the initial state through applicable actions,
\* as far as the model's range of values goes.
RECURSIVE ReachableFrom(_)
ReachableFrom(S) ==
    LET T == S \cup { n \in UNION { Successors(st) : st \in S } : InRange(n) }
    IN  IF T = S THEN S ELSE ReachableFrom(T)

Reachable == ReachableFrom({initial_state})

\* Whether Reachable is all that is reachable: no state of it has a
\* successor beyond the model's range.
ReachableIsAll == \A st \in Reachable : \A n \in Successors(st) : InRange(n)

GoalReachable == \E st \in Reachable : satisfies(st, goal.desired_state)

\* Longest alternative plan a returned plan is compared with.
MaxPlanLen == 3

\* The sequences of at most MaxPlanLen actions of the list.
AlternativePlans == UNION { [1..n -> Range(actions)] : n \in 0..MaxPlanLen }

Returned == pc = "done"
ReturnedOk == pc = "done" /\ result.kind = "Ok"

\* ------------------------------------------------------------------ C1
\* C1: whenever plan() returns Ok(plan), the actions of the plan can be
\* executed in order from the initial state, each one applicable in the
\* state its predecessors leave, and the state after the last one satisfies
\* the goal.
C1_PlanExecutesToGoal ==
    ReturnedOk =>
        LET run == Execute(initial_state, result.actions, 1)
        IN  run.valid /\ satisfies(run.state, goal.desired_state)

\* A returned plan of three steps whose last action needs the first two.
C1_Witness ==
    /\ ReturnedOk
    /\ Len(result.actions) = 3
    /\ ~can_execute(result.actions[3], initial_state)

\* ------------------------------------------------------------------ C2
\* C2: whenever plan() returns Ok(plan), with action costs that are not
\* negative, no sequence of actions that is executable step by step from the
\* initial state and ends in a state satisfying the goal has a smaller sum
\* of costs than the returned plan. Both sums are exact, so that no
\* rounding is blamed.
C2_CostIsMinimal ==
    ReturnedOk =>
        \A p \in AlternativePlans :
            LET run == Execute(initial_state, p, 1)
            IN  run.valid /\ satisfies(run.state, goal.desired_state)
                    => ~(ExactSum(p, 1) < ExactSum(result.actions, 1))

\* ------------------------------------------------------------------ C3
\* C3 as stated: the cost of a returned plan is the sum of the costs of its
\* actions taken in order.
C3_CostIsSumInOrder ==
    ReturnedOk => result.cost = SumInOrder(result.actions, 1, 0)

\* C3 as amended: the cost of a returned plan is the f64 sum of the costs of
\* its actions accumulated from the last action back to the first, starting
\* from 0.0; it is the exact sum whenever that sum is small enough for every
\* partial sum to be representable.
C3_CostIsSumFromLast ==
    ReturnedOk =>
        /\ result.cost = SumFromLast(result.actions, Len(result.actions), 0)
        /\ ExactSum(result.actions, 1) < Pow2(MantBits)
                => result.cost = ExactSum(result.actions, 1)

\* A returned plan of several steps whose cost is not the exact sum: an
\* addition was rounded on the way.
C3_Witness ==
    /\ ReturnedOk
    /\ Len(result.actions) >= 3
    /\ result.cost # ExactSum(result.actions, 1)

\* ------------------------------------------------------------------ C4
\* C4: if the initial state satisfies the goal, plan() returns Ok with no
\* actions and cost 0, whatever the action list; the search is over after
\* the first pop.
C4_GoalAlreadySatisfied ==
    satisfies(initial_state, goal.desired_state) =>
        /\ pc # "cutoff"
        /\ Returned => result = Ok([actions |-> <<>>, cost |-> 0])
        /\ pc = "loop" => open_set = <<[node |-> initial_state, f_score |-> 0]>>

\* The goal has a requirement, the initial state meets it, and an action
\* of the list is applicable in the initial state.
C4_Witness ==
    /\ Returned
    /\ DOMAIN goal.desired_state # {}
    /\ satisfies(initial_state, goal.desired_state)
    /\ \E i \in DOMAIN actions : can_execute(actions[i], initial_state)
    /\ result.kind = "Ok"

Expanded ==
    IF Mismatched(initial_state, goal.desired_state) # {} THEN {}
    ELSE { st \in DOMAIN g_score :
            /\ \A i \in DOMAIN open_set : open_set[i].node # st
            /\ ~satisfies(st, goal.desired_state) }

\* The initial state and the successors the search has generated.
Generated == {initial_state} \cup UNION { Successors(st) : st \in Expanded }

Meets(value, required) ==
    /\ value.t = required.t
    /\ IF value.t \in {"I64", "F64"} THEN value.v >= required.v ELSE value.v = required.v

\* C9: satisfies holds iff every variable of the conditions is held by the
\* state in the same variant and meets the threshold law, and can_execute
\* and is_satisfied answer by the same rule.
C9_ThresholdLaw ==
    ret # NoReturn =>
        (ret.value <=>
            \A key \in DOMAIN fn.conditions :
                key \in DOMAIN fn.self /\ Meets(fn.self[key], fn.conditions[key]))

\* A number above its threshold was accepted by each of the three functions.
C9_Witness ==
    /\ ret.via \in {"can_execute", "is_satisfied"}
    /\ ret.value
    /\ "x" \in DOMAIN fn.conditions
    /\ fn.conditions["x"].t = "F64"
    /\ fn.self["x"].v > fn.conditions["x"].v
    /\ "k" \in DOMAIN fn.conditions

\* ------------------------------------------------------------------ C10
\* C10: satisfies, can_execute and is_satisfied return false, and nothing
\* else, when a variable of the conditions is missing from the state or held
\* under another variant.
C10_MismatchIsFalse ==
    /\ ret # NoReturn
    /\ \E key \in DOMAIN fn.conditions :
            key \notin DOMAIN fn.self \/ fn.self[key].t # fn.conditions[key].t
    => ret.value = FALSE

\* A variant mismatch on a variable whose integers would have met the
\* threshold, all other conditions being met.
C10_Witness ==
    /\ ret # NoReturn
    /\ ret.value = FALSE
    /\ DOMAIN fn.conditions = {"x", "k"}
    /\ DOMAIN fn.self = {"x", "k"}
    /\ fn.self["k"] = fn.conditions["k"]
    /\ fn.self["x"].t = "I64" /\ fn.conditions["x"].t = "F64"
    /\ fn.self["x"].v >= fn.conditions["x"].v

\* ------------------------------------------------------------------ C11
\* Whether an effect is an Add or a Subtract whose target the state does
\* not hold, or holds as a Bool or a Text.
Inapplicable(state, key, operation) ==
    /\ operation.op \in {"Add", "Subtract"}
    /\ key \notin DOMAIN state \/ state[key].t \in {"Bool", "Enum"}

\* C11: an Add or Subtract effect whose target variable is absent from the
\* state, or is a Bool or a Text, does nothing: apply returns (it has no
\* error to raise), the variable is not created, a Bool or Text keeps its
\* value, and when every effect of the map is of this kind the whole state
\* is as it was.
C11_AddOnOtherTargetIsNoOp ==
    ret.via = "apply" =>
        /\ \A key \in DOMAIN fn.changes :
                Inapplicable(fn.self, key, fn.changes[key]) =>
                    /\ key \in DOMAIN ret.value <=> key \in DOMAIN fn.self
                    /\ key \in DOMAIN fn.self => ret.value[key] = fn.self[key]
        /\ (\A key \in DOMAIN fn.changes : Inapplicable(fn.self, key, fn.changes[key]))
                => ret.value = fn.self

\* An Add on a variable the state does not hold, next to a Subtract on a Bool.
C11_Witness ==
    /\ ret.via = "apply"
    /\ fn.self = "k" :> Bool(1)
    /\ fn.changes = ("x" :> Add(1)) @@ ("k" :> Subtract(1))
    /\ ret.value = fn.self

\* ------------------------------------------------------------------ C12
\* What the claim says a state holds after apply: the variables it held and
\* those the map sets; a Set variable holds the value set, an Integer or
\* Decimal with Add or Subtract its integer plus or minus the amount in the
\* same variant, every other variable what it held.
ExpectedAfter(before, changes) ==
    [key \in DOMAIN before \cup { k \in DOMAIN changes : changes[k].op = "Set" } |->
        IF key \notin DOMAIN changes THEN before[key]
        ELSE IF changes[key].op = "Set" THEN changes[key].val
        ELSE IF before[key].t \notin {"I64", "F64"} THEN before[key]
        ELSE IF changes[key].op = "Add"
        THEN [t |-> before[key].t, v |-> before[key].v + changes[key].amount]
        ELSE [t |-> before[key].t, v |-> before[key].v - changes[key].amount]]

C13_ApplyEffectReturnsACopy ==
    [][ /\ DOMAIN g_score \subseteq DOMAIN g_score'
        /\ DOMAIN came_from \subseteq DOMAIN came_from'
        /\ \A i \in DOMAIN open_set :
                \/ open_set[i].node = current'
                \/ \E j \in DOMAIN open_set' : open_set'[j].node = open_set[i].node
        /\ \A st \in DOMAIN came_from' :
                /\ came_from'[st] \in DOMAIN g_score'
                /\ st = ExpectedAfter(came_from'[st], action_taken'[st].effects)
        /\ ret'.via = "apply_effect" =>
                /\ ret'.self = fn.self
                /\ ret'.value = ExpectedAfter(fn.self, fn.action.effects) ]_vars

\* Two states were derived from one recorded state, by actions of which the
\* second would have given another state had the first changed that state.
C13_Witness ==
    \E a, b \in DOMAIN came_from :
        /\ a # b
        /\ came_from[a] = came_from[b]
        /\ came_from[a] \in DOMAIN g_score
        /\ apply_effect(action_taken[b], a) # b
        /\ can_execute(action_taken[b], a)

\* ------------------------------------------------------------------ C14
\* C14: for two StateVars of the same variant distance returns 0 for equal
\* and 1 for different Bools or Texts, the absolute difference of the
\* integers for two Integers or two Decimals, whatever 64-bit values they
\* hold, and the same in both directions.
C14_DistanceIsAbsoluteDifference ==
    ret.via = "distance" /\ fn.self.t = fn.other.t =>
        /\ ret.there.outcome = "Ok"
        /\ ret.there.d =
                IF fn.self.t \in {"Bool", "Enum"}
                THEN (IF fn.self.v = fn.other.v THEN 0 ELSE 1)
                ELSE IF fn.self.v < fn.other.v THEN fn.other.v - fn.self.v
                ELSE fn.self.v - fn.other.v
        /\ ret.back = ret.there

\* ------------------------------------------------------------------ C15
\* C15: for two StateVars of different variants distance returns an error
\* value: it does not coerce and does not abort, also for an Integer and a
\* Decimal that hold the same integer.
C15_MismatchIsAnErrorValue ==
    ret.via = "distance" /\ fn.self.t # fn.other.t =>
        ret.there.outcome = "Err" /\ ret.back.outcome = "Err"

\* ------------------------------------------------------------------ C16
\* C16: two states built by setting the same name-to-value pairs in two
\* orders are equal and feed the hasher the same, whatever the order in
\* which each map iterates, and a map keyed by states holds one entry for
\* the two: the insert with the second state as the key finds the entry of
\* the first.
C16_InsertionOrderIsIrrelevant ==
    ret.via = "set" =>
        /\ ret.eq
        /\ ret.hash_first = ret.hash_second
        /\ Len(ret.g_score) = 1
        /\ ret.g_score[1].value = 2

\* Three pairs set in opposite orders into maps that iterate differently.
C16_Witness ==
    /\ ret.via = "set"
    /\ Len(fn.first) = 3
    /\ \A i \in 1..3 : fn.second[i] = fn.first[4 - i]
    /\ fn.iter_first # fn.iter_second
    /\ fn.iter_first # sort(fn.iter_first)
    /\ ret.eq

\* ------------------------------------------------------------------ C19
\* C19: is_satisfied answers the same on two states that agree on the
\* variables the goal mentions, whatever other variables either holds;
\* a goal with no requirement is satisfied by every state, and a goal with
\* a requirement is not satisfied by the empty state.
C19_OnlyMentionedVariables ==
    ret.via = "is_satisfied" =>
        /\ ret.value = ret.other
        /\ DOMAIN fn.goal.desired_state = {} => ret.value
        /\ DOMAIN fn.goal.desired_state # {} /\ fn.self = EmptyState => ~ret.value

\* A goal on x is satisfied by a state that holds k too and by one that does not.
C19_Witness ==
    /\ ret.via = "is_satisfied"
    /\ DOMAIN fn.goal.desired_state = {"x"}
    /\ DOMAIN fn.self = {"x", "k"}
    /\ DOMAIN fn.other = {"x"}
    /\ ret.value /\ ret.other

\* ------------------------------------------------------------------ C20
\* C20: after a.merge(b), a holds the variables of a and of b and no other,
\* those of b with b's value whatever a held, the others with the value
\* they had, and b is as it was; merge returns in direct calls only, never
\* in a step of the search.
C20_MergeOverwrites ==
    ret.via = "merge" =>
        /\ DOMAIN ret.value = DOMAIN fn.self \cup DOMAIN fn.other
        /\ \A key \in DOMAIN fn.other : ret.value[key] = fn.other[key]
        /\ \A key \in DOMAIN fn.self \ DOMAIN fn.other : ret.value[key] = fn.self[key]
        /\ ret.other = fn.other
        /\ pc = "idle"

\* A Text of b replaces an Integer of a, whose other variable stays.
C20_Witness ==
    /\ ret.via = "merge"
    /\ fn.self = ("x" :> I64(1)) @@ ("k" :> Bool(0))
    /\ fn.other = "x" :> Enum(1)
    /\ ret.value = ("x" :> Enum(1)) @@ ("k" :> Bool(0))

NothingRounded ==
    \A st \in DOMAIN g_score :
        g_score[st] + heuristic(st, goal.desired_state, goal_order).h < Pow2(MantBits)

ScenarioB ==
    /\ initial_state = "gold" :> I64(0)
    /\ goal.desired_state = "gold" :> I64(100)
    /\ actions = <<small_job, big_job>>

\* C18: in Scenario B plan() returns a plan that is not empty, that executes
\* from the initial state to a state with gold >= 100, and whose cost no
\* executable sequence of the two jobs reaching gold >= 100 undercuts: none
\* of at most MaxPlanLen jobs, and no longer one, which costs more than
\* MaxPlanLen since a job costs 1 at least.
C18_ScenarioB ==
    ScenarioB =>
        /\ pc # "cutoff"
        /\ Returned =>
            /\ result.kind = "Ok"
            /\ result.actions # <<>>
            /\ LET run == Execute(initial_state, result.actions, 1)
               IN  /\ run.valid
                   /\ run.state["gold"].t = "I64" /\ run.state["gold"].v >= 100
            /\ \A p \in AlternativePlans :
                    LET run == Execute(initial_state, p, 1)
                    IN  run.valid /\ satisfies(run.state, goal.desired_state)
                            => ExactSum(p, 1) >= result.cost
            /\ result.cost <= MaxPlanLen + 1

\* Scenario B has returned a plan of two jobs.
C18_Witness ==
    /\ ScenarioB
    /\ ReturnedOk
    /\ Len(result.actions) = 2
    /\ result.cost = 4

\* ------------------------------------------------------------------ C23
\* How many nodes of the open set hold this state.
Count(data, state) == Cardinality({ i \in DOMAIN data : data[i].node = state })

\* Whether a step of the search has written an entry of this state or pushed it.
Written(n) ==
    \/ n \notin DOMAIN g_score
    \/ g_score'[n] # g_score[n]
    \/ n \in DOMAIN came_from' /\ (n \notin DOMAIN came_from \/ came_from'[n] # came_from[n])
    \/ n \in DOMAIN action_taken'
          /\ (n \notin DOMAIN action_taken \/ action_taken'[n] # action_taken[n])
    \/ Count(open_set', n) > Count(heap_pop(open_set).data, n)

\* C23: in a step of the search, the predecessor, action and gScore of a
\* state are written, and the state is pushed, only when an action
\* applicable in the popped node leads to it at a tentative cost strictly
\* smaller than the gScore recorded for it before (infinite when none is);
\* the entries then name the popped node and that action, and no earlier
\* action of the list leads from the popped node to the state at the same cost.
C23_WrittenOnlyWhenStrictlyBetter ==
    [][pc = "loop" /\ open_set # <<>> /\ pc' # "cutoff" =>
        \A n \in DOMAIN g_score' :
            Written(n) =>
                /\ f64_lt(g_score'[n], g_score_or_inf(g_score, n))
                /\ n \in DOMAIN came_from' /\ came_from'[n] = current'
                /\ n \in DOMAIN action_taken'
                /\ \E i \in DOMAIN actions :
                      /\ action_taken'[n] = actions[i]
                      /\ can_execute(actions[i], current')
                      /\ apply_effect(actions[i], current') = n
                      /\ g_score'[n] = f64_add(g_score_or_inf(g_score, current'),
                                               actions[i].cost)
                      /\ \A j \in 1..(i - 1) :
                            ~ /\ can_execute(actions[j], current')
                              /\ apply_effect(actions[j], current') = n
                              /\ actions[j].cost = actions[i].cost]_vars

\* Two actions of the same cost lead from a state to the same successor, and
\* the successor's entries name the first of them.
C23_Witness ==
    \E n \in DOMAIN action_taken : \E i, j \in DOMAIN actions :
        /\ i < j
        /\ action_taken[n] = actions[i]
        /\ actions[j].cost = actions[i].cost
        /\ can_execute(actions[j], came_from[n])
        /\ apply_effect(actions[j], came_from[n]) = n
        /\ g_score[n] = f64_add(g_score[came_from[n]], actions[i].cost)

\* ------------------------------------------------------------------ C26
\* C26: at every point of the search the predecessor map and the
\* action-taken map have the same keys, and for every state n with the
\* recorded predecessor p and the recorded action a, a can execute in p,
\* a.apply_effect(p) is n, and gScore[n] >= gScore[p] + a.cost (the f64 sum).
C26_SearchGraphIsConsistent ==
    /\ DOMAIN came_from = DOMAIN action_taken
    /\ \A n \in DOMAIN came_from :
          LET p == came_from[n]
              a == action_taken[n]
          IN  /\ can_execute(a, p)
              /\ apply_effect(a, p) = n
              /\ n \in DOMAIN g_score /\ p \in DOMAIN g_score
              /\ ~f64_lt(g_score[n], f64_add(g_score[p], a.cost))

\* A state is recorded behind a chain of two predecessors, its own action
\* one with a precondition and a cost.
C26_Witness ==
    \E n \in DOMAIN came_from :
        /\ came_from[n] \in DOMAIN came_from
        /\ action_taken[n].preconditions # EmptyState
        /\ can_execute(action_taken[n], came_from[n])
        /\ action_taken[n].cost > 0
        /\ g_score[n] = f64_add(g_score[came_from[n]], action_taken[n].cost)

\* ------------------------------------------------------------------ C27
\* The state that the predecessor links lead to from this one in at most
\* k steps, or the state reached after k steps when they lead further.
RECURSIVE Origin(_, _)
Origin(state, k) ==
    IF state \notin DOMAIN came_from \/ k = 0 THEN state
    ELSE Origin(came_from[state], k - 1)

\* The states a plan passes through from this state on, the state included.
RECURSIVE Path(_, _, _)
Path(state, plan, i) ==
    IF i > Len(plan) THEN <<state>>
    ELSE <<state>> \o Path(apply_effect(plan[i], state), plan, i + 1)

\* C27: the costs being non-negative, the initial state never has a
\* predecessor; the predecessor links of every recorded state lead to the
\* initial state in at most as many steps as there are links (so they form no
\* cycle); and a returned plan passes through no state twice.
C27_LinksLeadToTheInitialState ==
    (\A i \in DOMAIN actions : actions[i].cost >= 0) =>
        /\ initial_state \notin DOMAIN came_from
        /\ \A n \in DOMAIN came_from :
              /\ Origin(n, Cardinality(DOMAIN came_from)) = initial_state
              /\ \A k \in 1..Cardinality(DOMAIN came_from) : Origin(n, k) # n
        /\ ReturnedOk =>
              LET path == Path(initial_state, result.actions, 1)
              IN  /\ path[Len(path)] = current
                  /\ \A i, j \in DOMAIN path : i # j => path[i] # path[j]

\* A plan of two steps at least is returned although an action of cost 0
\* leads from the initial state back to the initial state.
C27_Witness ==
    /\ ReturnedOk
    /\ Len(result.actions) >= 2
    /\ \E i \in DOMAIN actions :
          /\ actions[i].cost = 0
          /\ can_execute(actions[i], initial_state)
          /\ apply_effect(actions[i], initial_state) = initial_state

\* ------------------------------------------------------------------ C28
\* C28: in every step of a call the gScore recorded for a state stays
\* recorded and does not increase; every state in the open set has a
\* recorded gScore; and, the costs being non-negative, the gScore of the
\* initial state is 0 from the first step on.
C28_GScoreNeverIncreases ==
    [][/\ \A n \in DOMAIN g_score :
             n \in DOMAIN g_score' /\ ~f64_lt(g_score[n], g_score'[n])
       /\ \A i \in DOMAIN open_set' : open_set'[i].node \in DOMAIN g_score'
       /\ (\A i \in DOMAIN actions : actions[i].cost >= 0) =>
             initial_state \in DOMAIN g_score' /\ g_score'[initial_state] = 0]_vars

\* A state was pushed twice, its gScore lowered in between: the open set
\* holds it with two f-scores, while the initial state is still at 0.
C28_Witness ==
    /\ \E i, j \in DOMAIN open_set :
          /\ open_set[i].node = open_set[j].node
          /\ open_set[i].f_score # open_set[j].f_score
          /\ open_set[i].node \in DOMAIN g_score
    /\ g_score[initial_state] = 0

C29_PreconditionMismatchMet ==
    /\ Returned
    /\ result.kind \in {"Ok", "NoPlanFound"}
    /\ \E st \in Expanded : \E i \in DOMAIN actions :
          Mismatched(st, actions[i].preconditions) # {}

\* ------------------------------------------------------------------ C24
\* What a variable the goal mentions adds to the heuristic: its distance
\* when the state holds it, 1 when not.
Contribution(state, desired, key) ==
    IF key \in DOMAIN state THEN distance(state[key], desired[key]).d ELSE 1

\* The sum of the contributions of the variables of order, from the i-th on.
RECURSIVE SumOfContributions(_, _, _, _)
SumOfContributions(state, desired, order, i) ==
    IF i > Len(order) THEN 0
    ELSE Contribution(state, desired, order[i])
            + SumOfContributions(state, desired, order, i + 1)

\* C24: on a state that holds no goal-mentioned variable under another
\* variant, heuristic returns the sum, over the variables the goal mentions,
\* of the distance between the state's value and the goal's when the state
\* holds the variable and of 1 when it does not.
C24_HeuristicIsTheSum ==
    /\ fn.name = "heuristic"
    /\ ret.via = "heuristic"
    /\ Mismatched(fn.current, fn.goal) = {}
    => /\ ret.value.outcome = "Ok"
       /\ ret.value.h = SumOfContributions(fn.current, fn.goal, fn.order, 1)

\* ------------------------------------------------------------------ C30
\* C30: where heuristic returns a distance and the distance is 0, the goal
\* is satisfied by the state.
C30_ZeroHeuristicMeansSatisfied ==
    /\ fn.name = "heuristic"
    /\ ret.via = "heuristic"
    /\ ret.value.outcome = "Ok"
    /\ ret.value.h = 0
    => ret.is_satisfied

\* ------------------------------------------------------------------ C22
\* A value in ten-thousandths rounded to 3 decimal places, halves away from zero.
RoundedTo3(n) == round(n) * Grain

\* C22: from_f64(x) stores round(x * 1000), and as_f64 of what it stores is
\* x rounded to 3 decimal places, for any finite x.
C22_RoundTrip ==
    fn.name = "from_f64" /\ ret.via = "from_f64" =>
        /\ ret.value = F64(round(fn.value))
        /\ ret.back = Some(RoundedTo3(fn.value))

\* ------------------------------------------------------------------ plan() to its end
\* Actions that set x: the states they reach are finitely many, they lead
\* around a cycle of cost 0 (0 to 2 to 3 and back to 0), and to 3 on a
\* direct way that costs more than the way through 2.
direct == Action("direct", 1, EmptyState, "x" :> Set(I64(3)))
via_two == Action("via_two", 0, EmptyState, "x" :> Set(I64(2)))
two_to_three == Action("two_to_three", 0, "x" :> I64(2), "x" :> Set(I64(3)))
back == Action("back", 0, "x" :> I64(3), "x" :> Set(I64(0)))
craft_item == Action("craft_item", 1, "k" :> Bool(1), "x" :> Set(Enum(1)))

LiveActionLists ==
    { <<>>,
      <<direct, back>>,
      <<direct, via_two, two_to_three>>,
      <<direct, via_two, two_to_three, back>>,
      <<craft_item, via_two>>,
      <<craft_item, direct>> }

LiveInitialStates == { "x" :> I64(0), ("x" :> I64(1)) @@ ("k" :> Bool(1)), "x" :> I64(3) }

LiveGoals ==
    { Goal("x3", "x" :> I64(3)), Goal("k", "k" :> Bool(1)), Goal("text", "x" :> Enum(1)) }

\* The calls whose actions have non-negative costs and whose initial state
\* reaches finitely many states: the search of such a call never leaves
\* the range the model follows.
InitLive ==
    /\ initial_state \in LiveInitialStates
    /\ goal \in LiveGoals
    /\ actions \in LiveActionLists
    /\ scale = "unit"
    /\ goal_order \in IterationOrders(DOMAIN goal.desired_state)
    /\ open_set = <<>>
    /\ came_from = NoMap
    /\ g_score = NoMap
    /\ action_taken = NoMap
    /\ current = initial_state
    /\ pc = "start"
    /\ result = NoResult
    /\ call = 1
    /\ first = NoResult
    /\ parked = NotParked
    /\ fn = NoCall
    /\ ret = NoReturn

NextLive == Begin \/ Exhausted \/ PopGoal \/ PopExpand

\* plan() is synchronous and single-threaded, with no suspension point: a
\* call that can take a step takes it.
SpecLive == InitLive /\ [][NextLive]_vars /\ WF_vars(NextLive)

\* ------------------------------------------------------------------ plan() concurrently
\* The loop of plan() run to its end on the locals of one call: what the
\* call returns when nothing else runs.
RECURSIVE search(_, _, _, _, _, _, _)
search(gl, acts, order, open, cf, gs, at) ==
    IF open = <<>> THEN NoPlanFound
    ELSE LET popped == heap_pop(open)
             node == popped.item.node
         IN  IF is_satisfied(gl, node)
             THEN Ok(reconstruct_path(cf, at, node))
             ELSE LET after == expand(node, g_score_or_inf(gs, node),
                                      get_valid_transitions(node, acts), 1, gl, order,
                                      [err |-> "", came_from |-> cf,
                                       action_taken |-> at, g_score |-> gs,
                                       open_set |-> popped.data])
                  IN  IF after.err # "" THEN IncompatibleStateTypes(after.err)
                      ELSE search(gl, acts, order, after.open_set, after.came_from,
                                  after.g_score, after.action_taken)

\* Planner::plan run alone, on a search that stays within the model's range.
plan_alone(init, gl, acts, order) ==
    LET initial_h == heuristic(init, gl.desired_state, order)
    IN  IF initial_h.err # "" THEN IncompatibleStateTypes(initial_h.err)
        ELSE search(gl, acts, order,
                    heap_push(<<>>, [node |-> init, f_score |-> initial_h.h]),
                    NoMap, insert(NoMap, init, 0), NoMap)

\* The arguments and locals of the call that runs. Planner has no field
\* (planner.rs line 53), so a call has nothing else to read or write.
Locals ==
    [initial_state |-> initial_state, goal |-> goal, actions |-> actions,
     goal_order |-> goal_order, open_set |-> open_set, came_from |-> came_from,
     g_score |-> g_score, action_taken |-> action_taken, current |-> current,
     pc |-> pc, result |-> result]

\* The scheduler switching to the other call, one gScore map serving both.
Switch_sharing_g_score ==
    /\ parked.pc \in {"start", "loop"}
    /\ parked' = Locals
    /\ initial_state' = parked.initial_state
    /\ goal' = parked.goal
    /\ actions' = parked.actions
    /\ goal_order' = parked.goal_order
    /\ open_set' = parked.open_set
    /\ came_from' = parked.came_from
    /\ g_score' = g_score
    /\ action_taken' = parked.action_taken
    /\ current' = parked.current
    /\ pc' = parked.pc
    /\ result' = parked.result
    /\ call' = 3 - call
    /\ UNCHANGED <<scale, first, fn, ret>>

\* The scheduler switching to the other call, which has not returned yet:
\* the call that ran keeps its arguments, its open set and its maps (lines
\* 84-87, locals of plan()) where it left them, and the other call goes on
\* from its own.
Switch ==
    /\ parked.pc \in {"start", "loop"}
    /\ parked' = Locals
    /\ initial_state' = parked.initial_state
    /\ goal' = parked.goal
    /\ actions' = parked.actions
    /\ goal_order' = parked.goal_order
    /\ open_set' = parked.open_set
    /\ came_from' = parked.came_from
    /\ g_score' = parked.g_score
    /\ action_taken' = parked.action_taken
    /\ current' = parked.current
    /\ pc' = parked.pc
    /\ result' = parked.result
    /\ call' = 3 - call
    /\ UNCHANGED <<scale, first, fn, ret>>

\* Two calls begin, each with an initial state and a goal of its own; both
\* borrow the same list of actions.
InitConcurrent ==
    /\ initial_state \in LiveInitialStates
    /\ goal \in LiveGoals
    /\ actions \in LiveActionLists
    /\ scale = "unit"
    /\ goal_order \in IterationOrders(DOMAIN goal.desired_state)
    /\ open_set = <<>>
    /\ came_from = NoMap
    /\ g_score = NoMap
    /\ action_taken = NoMap
    /\ current = initial_state
    /\ pc = "start"
    /\ result = NoResult
    /\ call = 1
    /\ first = NoResult
    /\ fn = NoCall
    /\ ret = NoReturn
    /\ \E s \in LiveInitialStates, g \in LiveGoals :
          \E o \in IterationOrders(DOMAIN g.desired_state) :
            parked = [initial_state |-> s, goal |-> g, actions |-> actions,
                      goal_order |-> o, open_set |-> <<>>, came_from |-> NoMap,
                      g_score |-> NoMap, action_taken |-> NoMap, current |-> s,
                      pc |-> "start", result |-> NoResult]

NextConcurrent == Begin \/ Exhausted \/ PopGoal \/ PopExpand \/ Switch

SpecConcurrent == InitConcurrent /\ [][NextConcurrent]_vars

\* ------------------------------------------------------------------ C25
NonNegativeCosts == \A i \in DOMAIN actions : actions[i].cost >= 0

C21_ConcurrentCallsAreIndependent ==
    /\ pc = "done" => result = plan_alone(initial_state, goal, actions, goal_order)
    /\ parked.pc = "done" =>
          parked.result = plan_alone(parked.initial_state, parked.goal,
                                     parked.actions, parked.goal_order)

\* A call has returned a plan while the other call is in the middle of
\* its search towards another goal, the two gScore maps holding different
\* scores for one state.
C21_Witness ==
    /\ pc = "done"
    /\ result.kind = "Ok"
    /\ Len(result.actions) >= 1
    /\ parked.pc = "loop"
    /\ DOMAIN parked.came_from # {}
    /\ parked.goal # goal
    /\ \E st \in DOMAIN g_score \cap DOMAIN parked.g_score :
          g_score[st] # parked.g_score[st]

====
